---- MODULE Spec2Model ----
(***************************************************************************)
(* A model of the Peterson lock pool of kernel/peterson.c (the table       *)
(* ptable, its spinlocks and the four system calls), of the tournament     *)
(* tree library user/libtournament.c and of the user programs that drive   *)
(* them: ptest and tournament, four callers of the system calls (a pool of *)
(* contexts making arbitrary calls, a sequential client, the teardown of a *)
(* lock in use, callers passing arguments in and out of range) and two     *)
(* users of a tree already built (participants followed through the tree,  *)
(* a tree one of whose locks is destroyed).  The variable prog says which  *)
(* one runs.                                                               *)
(*                                                                         *)
(* Granularity.  Every field of a slot is read and written only while the  *)
(* slot's spinlock ptable[i].lk is held, and `active` changes only while   *)
(* ptable_lock is held as well.  One action of the model is therefore      *)
(* either the taking of a spinlock (enabled when it is free) or the code   *)
(* that runs from there to the next point where the process waits for a    *)
(* spinlock, yields or is back in user code.  Code that touches only the   *)
(* process's own locals (argument validation, the return itself, the loop  *)
(* arithmetic of the library) belongs to the action it follows.            *)
(***************************************************************************)
EXTENDS Integers, Sequences, FiniteSets, TLC

VARIABLES
    ptable,       \* ptable[i] = [active, flag, turn]: struct peterson_lock
    ptable_lock,  \* holder of the spinlock ptable_lock, or NoProc
    lk,           \* lk[i]: holder of the spinlock ptable[i].lk, or NoProc
    proc,         \* proc[p]: the registers, locals and library globals of process p
    prog,         \* the user program that is running (fixed by Init)
    obs           \* observers: history read by the properties, never by the code

vars == <<ptable, ptable_lock, lk, proc, prog, obs>>

----------------------------------------------------------------------------
(* Program constants *)

NPETERSONLOCKS == 16

(* Bounds of the model *)

\* contexts of the pool program
NCtx == 3
\* system calls one context of the pool program makes
MaxOps == 2
\* handles the contexts of the pool program pass to the system calls
NHandles == 1
\* the largest tournament has 2^MaxLevels participants
MaxLevels == 2
\* locks other programs hold allocated when a user program starts
MaxPre == 1
\* peterson_destroy calls of the sequential client
MaxDestroys == 1
\* iterations of the loop of ptest (100 in the program, line 27)
MaxIter == 3
\* the largest value an observer's counter takes
MaxCount == 3
\* contexts that make system calls with any argument
NCallers == 2
\* participants of a tournament that are followed through the tree
NWalkers == 2

NoProc == -1

Slots == 0 .. (NPETERSONLOCKS - 1)
Roles == 0 .. 1

----------------------------------------------------------------------------
(* kernel/peterson.c: the table *)

FreeSlot == [active |-> 0, flag |-> [r \in Roles |-> 0], turn |-> 0]

\* a faulty allocation: the slot is reset but not marked active
AllocatedSlotInactive == FreeSlot

\* a slot as peterson_alloc (lines 44-47) and peterson_free (67-70) leave it
AllocatedSlot == [active |-> 1, flag |-> [r \in Roles |-> 0], turn |-> 0]

\* the pool after pre calls of peterson_create by earlier programs
PoolAfter(pre) == [i \in Slots |-> IF i < pre THEN AllocatedSlot ELSE FreeSlot]

\* peterson_init: every slot inactive, no spinlock held
PetersonInit ==
    /\ ptable = [i \in Slots |-> FreeSlot]
    /\ ptable_lock = NoProc
    /\ lk = [i \in Slots |-> NoProc]

----------------------------------------------------------------------------
(* A process *)

NewProc ==
    [pc |-> "none", cont |-> "none", op |-> "none",
     \* kernel: the system call's arguments and locals, and its return value
     lock_id |-> 0, role |-> 0, i |-> 0, id |-> 0, ret |-> 0,
     \* libtournament.c: the library's globals and its loop variables
     peterson_lock_ids_array |-> <<>>, num_total_locks |-> 0, N_processes |-> 0,
     L_levels |-> 0, my_id |-> -1, l |-> 0, k |-> 0,
     \* the library function called last
     fn |-> "none",
     \* observers kept with the process: the (array index, role) pairs of the
     \* peterson_acquire calls of its current tournament_acquire, and of the
     \* peterson_release calls of its current tournament_release
     acq |-> <<>>, rel |-> <<>>,
     \* the user program's locals
     arg |-> 0, ops |-> 0, main_lock |-> 0, fork_ret |-> 0, main_role |-> 0,
     iter |-> 0, status |-> 0]

Procs == DOMAIN proc

\* the system call returns v to the user code that made it; the kernel's
\* locals die with the call
SysReturn(pr, v) ==
    [pr EXCEPT !.pc = pr.cont, !.ret = v,
               !.lock_id = 0, !.role = 0, !.i = 0, !.id = 0]

\* the validation of sys_peterson_acquire (line 100) and sys_peterson_release
\* (line 166)
BadArgs(lock_id, role) ==
    lock_id < 0 \/ lock_id >= NPETERSONLOCKS \/ (role # 0 /\ role # 1)

\* user code calls peterson_create(); cont is where it goes on
CallCreate(pr, cont) ==
    [pr EXCEPT !.op = "create", !.cont = cont, !.pc = "create_acquire"]

\* user code calls peterson_acquire(lock_id, role): argint and the validation
CallAcquire(pr, lock_id, role, cont) ==
    LET c == [pr EXCEPT !.op = "acquire", !.cont = cont,
                        !.lock_id = lock_id, !.role = role]
    IN IF BadArgs(lock_id, role) THEN SysReturn(c, -1)
       ELSE [c EXCEPT !.pc = "acquire_lk"]

\* user code calls peterson_release(lock_id, role)
CallRelease(pr, lock_id, role, cont) ==
    LET c == [pr EXCEPT !.op = "release", !.cont = cont,
                        !.lock_id = lock_id, !.role = role]
    IN IF BadArgs(lock_id, role) THEN SysReturn(c, -1)
       ELSE [c EXCEPT !.pc = "release_lk"]

\* user code calls peterson_destroy(lock_id)
CallDestroy(pr, lock_id, cont) ==
    LET c == [pr EXCEPT !.op = "destroy", !.cont = cont, !.lock_id = lock_id]
    IN IF lock_id < 0 \/ lock_id >= NPETERSONLOCKS THEN SysReturn(c, -1)
       ELSE [c EXCEPT !.pc = "destroy_acquire"]

----------------------------------------------------------------------------
(* Observers.  They record what has happened and are read by the           *)
(* properties only.                                                        *)
(*   dwait[p]  the slot p waits for in sys_peterson_acquire's loop was     *)
(*             destroyed during that wait                                  *)
(*   yld[p]    yields p has begun since then                               *)
(*   byp[p]    (ptest) locks granted to the other role since p announced   *)
(*             its interest                                                *)
(*   last, run (ptest) the process the lock was last granted to, and how   *)
(*             many times in a row it was granted the lock while the other *)
(*             role waited with its request announced                      *)
(*   alloc[i]  slot i was handed out by peterson_alloc and not destroyed   *)
(*             since; dup: a slot was handed out while alloc[i] held       *)
(*   snap, handles, destroys  (sequential client) the table when the       *)
(*             current call was made, the results of its peterson_create   *)
(*             calls in order, the number of its peterson_destroy calls    *)
(*   call[p]   (callers) the system call p made last and its arguments     *)

\* no system call made yet
NoCall == [op |-> "none", h |-> 0, r |-> 0]

NewObs ==
    [dwait |-> [q \in Procs |-> FALSE],
     yld   |-> [q \in Procs |-> 0],
     byp   |-> [q \in Procs |-> 0],
     last  |-> NoProc,
     run   |-> 0,
     alloc |-> [i \in Slots |-> ptable[i].active = 1],
     dup   |-> FALSE,
     snap  |-> ptable,
     handles |-> <<>>,
     destroys |-> 0,
     call  |-> [q \in Procs |-> NoCall]]

\* the counters of the observers stop at MaxCount
Cap(n) == IF n < MaxCount THEN n ELSE MaxCount

\* the processes that wait in sys_peterson_acquire's loop on slot h
Waiters(h) ==
    {q \in Procs : /\ proc[q].pc \in {"acquire_yield", "acquire_recheck"}
                   /\ proc[q].lock_id = h}

\* p announces its interest
ObsAnnounce(o, p) ==
    IF prog = "ptest" THEN [o EXCEPT !.byp[p] = 0] ELSE o

\* p leaves sys_peterson_acquire on slot h as pr: a grant when it returns 0,
\* a yield when it stays in the loop
ObsLeave(o, p, h, pr) ==
    IF pr.pc = "acquire_yield"
    THEN [o EXCEPT !.yld[p] = IF o.dwait[p] THEN Cap(@ + 1) ELSE @]
    ELSE IF pr.ret = 0 /\ prog = "ptest"
    THEN [o EXCEPT !.byp = [q \in Procs |->
                              IF q \in Waiters(h) \ {p} THEN Cap(o.byp[q] + 1)
                              ELSE o.byp[q]],
                   !.last = p,
                   !.run = IF Waiters(h) \ {p} = {} THEN 0
                           ELSE IF o.last = p THEN Cap(o.run + 1) ELSE 1]
    ELSE o

----------------------------------------------------------------------------
(* sys_peterson_create and peterson_alloc *)

\* a faulty scan: it begins at slot 1
CreateAcquireFromOne(p) ==
    /\ proc[p].pc = "create_acquire"
    /\ ptable_lock = NoProc
    /\ ptable_lock' = p
    /\ proc' = [proc EXCEPT ![p].pc = "alloc_acquire", ![p].i = 1]
    /\ UNCHANGED <<ptable, lk, prog, obs>>

\* acquire(&ptable_lock)
CreateAcquire(p) ==
    /\ proc[p].pc = "create_acquire"
    /\ ptable_lock = NoProc
    /\ ptable_lock' = p
    /\ proc' = [proc EXCEPT ![p].pc = "alloc_acquire", ![p].i = 0]
    /\ UNCHANGED <<ptable, lk, prog, obs>>

\* peterson_alloc: acquire(&ptable[i].lk)
AllocAcquire(p) ==
    /\ proc[p].pc = "alloc_acquire"
    /\ lk[proc[p].i] = NoProc
    /\ lk' = [lk EXCEPT ![proc[p].i] = p]
    /\ proc' = [proc EXCEPT ![p].pc = "alloc_test"]
    /\ UNCHANGED <<ptable, ptable_lock, prog, obs>>

\* a faulty test: the slot is taken whatever its state
AllocTakesAny(s) == TRUE

\* peterson_alloc, line 42: is the slot taken for the caller
AllocTakes(s) == s.active = 0

\* peterson_alloc: the body of the loop for slot i (lines 42-52), to the
\* next acquire or to the end of the scan
AllocTest(p) ==
    LET i == proc[p].i IN
    /\ proc[p].pc = "alloc_test"
    /\ lk' = [lk EXCEPT ![i] = NoProc]
    /\ IF AllocTakes(ptable[i])
       THEN /\ ptable' = [ptable EXCEPT ![i] = AllocatedSlot]
            /\ proc' = [proc EXCEPT ![p].id = i, ![p].pc = "create_release"]
            /\ obs' = [obs EXCEPT !.alloc[i] = TRUE,
                                  !.dup = @ \/ obs.alloc[i]]
       ELSE /\ UNCHANGED <<ptable, obs>>
            /\ proc' = IF i + 1 < NPETERSONLOCKS
                       THEN [proc EXCEPT ![p].i = i + 1, ![p].pc = "alloc_acquire"]
                       ELSE [proc EXCEPT ![p].i = i + 1, ![p].id = -1,
                                         ![p].pc = "create_release"]
    /\ UNCHANGED <<ptable_lock, prog>>

\* release(&ptable_lock); return id
CreateRelease(p) ==
    /\ proc[p].pc = "create_release"
    /\ ptable_lock' = NoProc
    /\ proc' = [proc EXCEPT ![p] = SysReturn(proc[p], proc[p].id)]
    /\ obs' = IF prog = "client"
              THEN [obs EXCEPT !.handles = Append(@, proc[p].id)]
              ELSE obs
    /\ UNCHANGED <<ptable, lk, prog>>

----------------------------------------------------------------------------
(* sys_peterson_acquire *)

\* a faulty acquire: with the slot's spinlock taken it goes for ptable_lock
AcquireLkThenPool(p) ==
    /\ proc[p].pc = "acquire_lk"
    /\ lk[proc[p].lock_id] = NoProc
    /\ lk' = [lk EXCEPT ![proc[p].lock_id] = p]
    /\ proc' = [proc EXCEPT ![p].pc = "destroy_acquire"]
    /\ UNCHANGED <<ptable, ptable_lock, prog, obs>>

\* acquire(&pl->lk) on entry (line 106)
AcquireLk(p) ==
    /\ proc[p].pc = "acquire_lk"
    /\ lk[proc[p].lock_id] = NoProc
    /\ lk' = [lk EXCEPT ![proc[p].lock_id] = p]
    /\ proc' = [proc EXCEPT ![p].pc = "acquire_set"]
    /\ UNCHANGED <<ptable, ptable_lock, prog, obs>>

\* a faulty wait condition: the turn compared with the caller's own role
MustWaitOwnTurn(s, r) == s.flag[1 - r] = 1 /\ s.turn = r

\* the wait condition of line 124, for role r on slot s
MustWait(s, r) == s.flag[1 - r] = 1 /\ s.turn = 1 - r

\* a faulty loop: neither the check of line 126 nor that of line 141
AcquireWaitUnchecked(pr, s) ==
    IF s.flag[1 - pr.role] = 1 /\ s.turn = 1 - pr.role
    THEN [pr EXCEPT !.pc = "acquire_yield"]
    ELSE SysReturn(pr, 0)

\* a faulty acquire: the loop of line 124 is missing
AcquireWaitNoLoop(pr, s) ==
    IF s.active = 0 THEN SysReturn(pr, -1) ELSE SysReturn(pr, 0)

\* lines 124-150 with pl->lk held and the slot reading s: the process as it
\* leaves the code (yielding, or back in user code with -1 or 0)
AcquireWait(pr, s) ==
    IF MustWait(s, pr.role)
    THEN IF s.active = 0 THEN SysReturn(pr, -1)
         ELSE [pr EXCEPT !.pc = "acquire_yield"]
    ELSE IF s.active = 0 THEN SysReturn(pr, -1)
         ELSE SysReturn(pr, 0)

\* a faulty announcement: the turn is not handed over
AcquireAnnounceKeepTurn(s, r) == [s EXCEPT !.flag = [s.flag EXCEPT ![r] = 1]]

\* lines 115-120: flag[role] = 1, turn = 1 - role
AcquireAnnounce(s, r) ==
    [s EXCEPT !.flag = [s.flag EXCEPT ![r] = 1], !.turn = 1 - r]

\* lines 108-150 with pl->lk held on entry: the active check, the
\* announcement, the first test of the wait condition.  The result: the slot
\* and the process as the code leaves them, and the observers
AnnounceRegion(p) ==
    LET h  == proc[p].lock_id
        s  == AcquireAnnounce(ptable[h], proc[p].role)
        pr == AcquireWait(proc[p], s)
    IN IF ptable[h].active = 0
       THEN [slot |-> ptable[h], pr |-> SysReturn(proc[p], -1), obs |-> obs]
       ELSE [slot |-> s, pr |-> pr, obs |-> ObsLeave(ObsAnnounce(obs, p), p, h, pr)]

\* lines 124-150 with pl->lk held after a yield: the wait condition is
\* tested again
RecheckRegion(p) ==
    LET h  == proc[p].lock_id
        pr == AcquireWait(proc[p], ptable[h])
    IN [slot |-> ptable[h], pr |-> pr, obs |-> ObsLeave(obs, p, h, pr)]

\* a faulty exit: release(&pl->lk) is missing
LeaveKeepsLk(p, h, r) ==
    /\ lk' = lk
    /\ ptable' = [ptable EXCEPT ![h] = r.slot]
    /\ proc' = [proc EXCEPT ![p] = r.pr]
    /\ obs' = r.obs
    /\ UNCHANGED <<ptable_lock, prog>>

\* the code that ran with ptable[h].lk held ends with release(&pl->lk)
Leave(p, h, r) ==
    /\ lk' = [lk EXCEPT ![h] = NoProc]
    /\ ptable' = [ptable EXCEPT ![h] = r.slot]
    /\ proc' = [proc EXCEPT ![p] = r.pr]
    /\ obs' = r.obs
    /\ UNCHANGED <<ptable_lock, prog>>

AcquireSet(p) ==
    /\ proc[p].pc = "acquire_set"
    /\ \E r \in {AnnounceRegion(p)} : Leave(p, proc[p].lock_id, r)

\* yield() returns and acquire(&pl->lk) is taken again (lines 132-134)
AcquireRelk(p) ==
    /\ proc[p].pc = "acquire_yield"
    /\ lk[proc[p].lock_id] = NoProc
    /\ lk' = [lk EXCEPT ![proc[p].lock_id] = p]
    /\ proc' = [proc EXCEPT ![p].pc = "acquire_recheck"]
    /\ UNCHANGED <<ptable, ptable_lock, prog, obs>>

AcquireRecheck(p) ==
    /\ proc[p].pc = "acquire_recheck"
    /\ \E r \in {RecheckRegion(p)} : Leave(p, proc[p].lock_id, r)

----------------------------------------------------------------------------
(* sys_peterson_release *)

\* acquire(&pl->lk) (line 172)
ReleaseLk(p) ==
    /\ proc[p].pc = "release_lk"
    /\ lk[proc[p].lock_id] = NoProc
    /\ lk' = [lk EXCEPT ![proc[p].lock_id] = p]
    /\ proc' = [proc EXCEPT ![p].pc = "release_clear"]
    /\ UNCHANGED <<ptable, ptable_lock, prog, obs>>

\* a faulty release: the check of line 175 is missing
ClearRegionUnchecked(p) ==
    [slot |-> [ptable[proc[p].lock_id] EXCEPT !.flag[proc[p].role] = 0],
     pr |-> SysReturn(proc[p], 0), obs |-> obs]

\* lines 175-186 with pl->lk held: the active check and flag[role] = 0
ClearRegion(p) ==
    LET h == proc[p].lock_id IN
    IF ptable[h].active = 0
    THEN [slot |-> ptable[h], pr |-> SysReturn(proc[p], -1), obs |-> obs]
    ELSE [slot |-> [ptable[h] EXCEPT !.flag[proc[p].role] = 0],
          pr |-> SysReturn(proc[p], 0), obs |-> obs]

ReleaseClear(p) ==
    /\ proc[p].pc = "release_clear"
    /\ \E r \in {ClearRegion(p)} : Leave(p, proc[p].lock_id, r)

----------------------------------------------------------------------------
(* sys_peterson_destroy and peterson_free *)

\* acquire(&ptable_lock) (line 207)
DestroyAcquire(p) ==
    /\ proc[p].pc = "destroy_acquire"
    /\ ptable_lock = NoProc
    /\ ptable_lock' = p
    /\ proc' = [proc EXCEPT ![p].pc = "destroy_lk"]
    /\ UNCHANGED <<ptable, lk, prog, obs>>

\* acquire(&pl->lk) (line 208)
DestroyLk(p) ==
    /\ proc[p].pc = "destroy_lk"
    /\ lk[proc[p].lock_id] = NoProc
    /\ lk' = [lk EXCEPT ![proc[p].lock_id] = p]
    /\ proc' = [proc EXCEPT ![p].pc = "destroy_free"]
    /\ UNCHANGED <<ptable, ptable_lock, prog, obs>>

\* peterson_free's validation (line 63)
FreePanics(id) == id < 0 \/ id >= NPETERSONLOCKS \/ ptable[id].active = 0

\* a faulty peterson_free: lines 68-70 are missing
peterson_free_active_only(s) == [s EXCEPT !.active = 0]

\* peterson_free, lines 67-70: the slot as it is left
peterson_free(s) == FreeSlot

\* a faulty destroy: the check of line 211 is missing
DestroyFreeUnchecked(p) ==
    LET h == proc[p].lock_id IN
    /\ proc[p].pc = "destroy_free"
    /\ lk' = [lk EXCEPT ![h] = NoProc]
    /\ ptable_lock' = NoProc
    /\ IF FreePanics(h)
       THEN /\ UNCHANGED <<ptable, obs>>
            /\ proc' = [proc EXCEPT ![p].pc = "panic"]
       ELSE /\ ptable' = [ptable EXCEPT ![h] = peterson_free(ptable[h])]
            /\ proc' = [proc EXCEPT ![p] = SysReturn(proc[p], 0)]
            /\ obs' = [obs EXCEPT
                         !.dwait = [q \in Procs |-> obs.dwait[q] \/ q \in Waiters(h)],
                         !.alloc[h] = FALSE]
    /\ UNCHANGED prog

\* lines 211-224: the active check, peterson_free, both spinlocks released
DestroyFree(p) ==
    LET h == proc[p].lock_id IN
    /\ proc[p].pc = "destroy_free"
    /\ lk' = [lk EXCEPT ![h] = NoProc]
    /\ ptable_lock' = NoProc
    /\ IF ptable[h].active = 0
       THEN /\ UNCHANGED <<ptable, obs>>
            /\ proc' = [proc EXCEPT ![p] = SysReturn(proc[p], -1)]
       ELSE IF FreePanics(h)
       THEN /\ UNCHANGED <<ptable, obs>>
            /\ proc' = [proc EXCEPT ![p].pc = "panic"]
       ELSE /\ ptable' = [ptable EXCEPT ![h] = peterson_free(ptable[h])]
            /\ proc' = [proc EXCEPT ![p] = SysReturn(proc[p], 0)]
            /\ obs' = [obs EXCEPT
                         !.dwait = [q \in Procs |-> obs.dwait[q] \/ q \in Waiters(h)],
                         !.alloc[h] = FALSE]
    /\ UNCHANGED prog

----------------------------------------------------------------------------
(* The steps of a process in the kernel *)

SysCreate(p) ==
    CreateAcquire(p) \/ AllocAcquire(p) \/ AllocTest(p) \/ CreateRelease(p)

SysAcquire(p) ==
    AcquireLk(p) \/ AcquireSet(p) \/ AcquireRelk(p) \/ AcquireRecheck(p)

SysRelease(p) == ReleaseLk(p) \/ ReleaseClear(p)

SysDestroy(p) == DestroyAcquire(p) \/ DestroyLk(p) \/ DestroyFree(p)

----------------------------------------------------------------------------
(* user/libtournament.c (src/user/ptest.c, lines 78-278) *)

MaxTournamentProcs == 16

RECURSIVE BitAnd(_, _)
\* a & b for a, b >= 0
BitAnd(a, b) ==
    IF a = 0 \/ b = 0 THEN 0
    ELSE (a % 2) * (b % 2) + 2 * BitAnd(a \div 2, b \div 2)

RECURSIVE Log2Loop(_, _)
\* the loop of lines 108-111: temp >>= 1, log_val++ while temp > 1
Log2Loop(temp, log_val) ==
    IF temp > 1 THEN Log2Loop(temp \div 2, log_val + 1) ELSE log_val

\* a faulty get_log2_if_power_of_2: the test of line 101 is missing
get_log2_unchecked(n) ==
    IF n <= 0 THEN -1
    ELSE IF n = 1 THEN 0
    ELSE Log2Loop(n, 0)

get_log2_if_power_of_2(n) ==
    IF n <= 0 THEN -1
    ELSE IF n = 1 THEN 0
    ELSE IF BitAnd(n, n - 1) # 0 THEN -1
    ELSE Log2Loop(n, 0)

\* a faulty role: bit 0 of my_id at every level
role_lowest_bit(my_id, L, l) == my_id % 2

\* lines 202-203: the role of my_id at level l
role_at_level(my_id, L, l) == (my_id \div 2 ^ (L - 1 - l)) % 2

\* a faulty index: the offset of the level is missing
array_idx_no_offset(my_id, L, l) == my_id \div 2 ^ (L - l)

\* a faulty index: the offset is the size of the level, 1 << l
array_idx_level_size(my_id, L, l) == (my_id \div 2 ^ (L - l)) + 2 ^ l

\* lines 206-212: the index of my_id's lock at level l in the BFS array
array_idx(my_id, L, l) == (my_id \div 2 ^ (L - l)) + (2 ^ l - 1)

\* peterson_lock_ids_array[idx] (C arrays count from 0)
LockAt(pr, idx) == pr.peterson_lock_ids_array[idx + 1]

\* a library function returns v to main: where main goes on
LibReturn(pr, v, ok, failed) ==
    [pr EXCEPT !.ret = v, !.pc = IF v < 0 THEN failed ELSE ok]

\* tournament_create, lines 120-154 up to the first peterson_create():
\* mem says whether malloc succeeds
TournamentCreateEntry(pr, processes, mem) ==
    LET L == get_log2_if_power_of_2(processes)
        f == [pr EXCEPT !.fn = "tournament_create"]
        g == [f EXCEPT !.L_levels = L, !.N_processes = processes,
                       !.num_total_locks = processes - 1]
    IN IF processes > MaxTournamentProcs THEN LibReturn(f, -1, "tm_created", "exit")
       ELSE IF L = -1 THEN LibReturn(f, -1, "tm_created", "exit")
       ELSE IF g.num_total_locks > 0
            THEN IF ~mem THEN LibReturn(g, -1, "tm_created", "exit")
                 ELSE CallCreate([g EXCEPT !.k = 0], "tc_created")
            ELSE [g EXCEPT !.peterson_lock_ids_array = <<>>, !.my_id = 0,
                           !.k = 1, !.pc = "tc_fork"]

\* a faulty loop: a failed peterson_create does not end it
TournamentCreateLoopGoesOn(pr) ==
    LET g == [pr EXCEPT !.peterson_lock_ids_array = Append(@, pr.ret)] IN
    IF pr.k + 1 < pr.num_total_locks
    THEN CallCreate([g EXCEPT !.k = pr.k + 1], "tc_created")
    ELSE [g EXCEPT !.my_id = 0, !.k = 1, !.pc = "tc_fork"]

\* lines 144-156: peterson_create() has returned into the loop
TournamentCreateLoop(pr) ==
    LET g == [pr EXCEPT !.peterson_lock_ids_array = Append(@, pr.ret)] IN
    IF pr.ret < 0 THEN LibReturn(g, -1, "tm_created", "exit")
    ELSE IF pr.k + 1 < pr.num_total_locks
         THEN CallCreate([g EXCEPT !.k = pr.k + 1], "tc_created")
         ELSE [g EXCEPT !.my_id = 0, !.k = 1, !.pc = "tc_fork"]

\* tournament_acquire and tournament_release, the checks of lines 183-197
\* and 235-249: -1 (error), 0 (N_processes = 1: nothing to do), 1 (go on)
TournamentChecks(pr) ==
    IF pr.my_id = -1 THEN -1
    ELSE IF pr.N_processes <= 0 THEN -1
    ELSE IF pr.N_processes = 1 THEN 0
    ELSE IF pr.num_total_locks > 0 /\ pr.peterson_lock_ids_array = <<>> THEN -1
    ELSE 1

\* lines 200-228, one pass of the loop at level pr.l: the bounds check and
\* the call of peterson_acquire
TournamentAcquireLevel(pr) ==
    LET idx == array_idx(pr.my_id, pr.L_levels, pr.l)
        r   == role_at_level(pr.my_id, pr.L_levels, pr.l)
    IN IF pr.l < 0 THEN LibReturn(pr, 0, "tm_cs", "exit")
       ELSE IF idx < 0 \/ idx >= pr.num_total_locks
            THEN LibReturn(pr, -1, "tm_cs", "exit")
            ELSE CallAcquire([pr EXCEPT !.acq = Append(@, <<idx, r>>)],
                             LockAt(pr, idx), r, "ta_ret")

\* lines 252-276, one pass of the loop at level pr.l
TournamentReleaseLevel(pr) ==
    LET idx == array_idx(pr.my_id, pr.L_levels, pr.l)
        r   == role_at_level(pr.my_id, pr.L_levels, pr.l)
    IN IF pr.l >= pr.L_levels THEN LibReturn(pr, 0, "tm_released", "exit")
       ELSE IF idx < 0 \/ idx >= pr.num_total_locks
            THEN LibReturn(pr, -1, "tm_released", "exit")
            ELSE CallRelease([pr EXCEPT !.rel = Append(@, <<idx, r>>)],
                             LockAt(pr, idx), r, "tr_ret")

\* tournament_acquire from its entry to its first peterson_acquire
\* (lines 183-222)
TournamentAcquireEntry(pr) ==
    LET c == TournamentChecks(pr)
        f == [pr EXCEPT !.fn = "tournament_acquire"]
    IN IF c = -1 THEN LibReturn(f, -1, "tm_cs", "exit")
       ELSE IF c = 0 THEN LibReturn(f, 0, "tm_cs", "exit")
       ELSE TournamentAcquireLevel([f EXCEPT !.l = pr.L_levels - 1, !.acq = <<>>,
                                             !.rel = <<>>])

\* a faulty tournament_acquire: a failed peterson_acquire does not end the
\* loop
TournamentAcquireRetGoesOn(pr) ==
    TournamentAcquireLevel([pr EXCEPT !.l = pr.l - 1])

\* tournament_acquire, lines 222-229: peterson_acquire has returned
TournamentAcquireRet(pr) ==
    IF pr.ret < 0 THEN LibReturn(pr, -1, "tm_cs", "exit")
    ELSE TournamentAcquireLevel([pr EXCEPT !.l = pr.l - 1])

\* a faulty tournament_release: its loop begins at the leaf level
TournamentReleaseEntryFromLeaf(pr) ==
    LET c == TournamentChecks(pr)
        f == [pr EXCEPT !.fn = "tournament_release"]
    IN IF c = -1 THEN LibReturn(f, -1, "tm_released", "exit")
       ELSE IF c = 0 THEN LibReturn(f, 0, "tm_released", "exit")
       ELSE TournamentReleaseLevel([f EXCEPT !.l = pr.L_levels - 1, !.rel = <<>>])

\* tournament_release from its entry to its first peterson_release
\* (lines 235-270)
TournamentReleaseEntry(pr) ==
    LET c == TournamentChecks(pr)
        f == [pr EXCEPT !.fn = "tournament_release"]
    IN IF c = -1 THEN LibReturn(f, -1, "tm_released", "exit")
       ELSE IF c = 0 THEN LibReturn(f, 0, "tm_released", "exit")
       ELSE TournamentReleaseLevel([f EXCEPT !.l = 0, !.rel = <<>>])

\* a faulty tournament_release: it returns after the first peterson_release
TournamentReleaseRetEarly(pr) ==
    LibReturn(pr, IF pr.ret < 0 THEN -1 ELSE 0, "tm_released", "exit")

\* tournament_release, lines 270-277: peterson_release has returned
TournamentReleaseRet(pr) ==
    IF pr.ret < 0 THEN LibReturn(pr, -1, "tm_released", "exit")
    ELSE TournamentReleaseLevel([pr EXCEPT !.l = pr.l + 1])

RECURSIVE Resume(_)
\* the library code a process runs after a system call has returned into
\* tournament_acquire or tournament_release, up to its next system call
Resume(pr) ==
    IF pr.pc = "ta_ret" THEN Resume(TournamentAcquireRet(pr))
    ELSE IF pr.pc = "tr_ret" THEN Resume(TournamentReleaseRet(pr))
    ELSE pr

----------------------------------------------------------------------------
(* The pool program: NCtx contexts, each making up to MaxOps system calls  *)
(* with arguments of its choice, starting from the pool peterson_init      *)
(* leaves.                                                                 *)

Ctxs == 0 .. (NCtx - 1)

PoolHandles == 0 .. (NHandles - 1)

PoolCall(p) ==
    /\ prog = "pool"
    /\ proc[p].pc = "user"
    /\ proc[p].ops < MaxOps
    /\ LET pr == [proc[p] EXCEPT !.ops = @ + 1] IN
       \E c \in  {CallCreate(pr, "user")}
            \cup {CallDestroy(pr, h, "user") : h \in PoolHandles}
            \cup {CallAcquire(pr, h, r, "user") : h \in PoolHandles, r \in Roles}
            \cup {CallRelease(pr, h, r, "user") : h \in PoolHandles, r \in Roles} :
          proc' = [proc EXCEPT ![p] = c]
    /\ obs' = [obs EXCEPT !.dwait[p] = FALSE, !.yld[p] = 0]
    /\ UNCHANGED <<ptable, ptable_lock, lk, prog>>

PoolInit ==
    /\ prog = "pool"
    /\ PetersonInit
    /\ proc = [p \in Ctxs |-> [NewProc EXCEPT !.pc = "user"]]
    /\ obs = NewObs

PoolNext ==
    \E p \in Ctxs :
        SysCreate(p) \/ SysAcquire(p) \/ SysRelease(p) \/ SysDestroy(p) \/ PoolCall(p)

SpecPool == PoolInit /\ [][PoolNext]_vars

----------------------------------------------------------------------------
(* The program ptest (src/user/ptest.c, lines 1-77): process 0 is main,    *)
(* process 1 the child of its fork.                                        *)

PtProcs == 0 .. 1

\* line 9: main calls peterson_create
PtStart(p) ==
    /\ prog = "ptest"
    /\ proc[p].pc = "pt_start"
    /\ proc' = [proc EXCEPT ![p] = CallCreate(proc[p], "pt_created")]
    /\ UNCHANGED <<ptable, ptable_lock, lk, prog, obs>>

\* lines 11-25: the result of peterson_create, the fork and the roles.  A
\* failed fork sends main to peterson_destroy (line 20)
PtCreated(p) ==
    /\ proc[p].pc = "pt_created"
    /\ IF proc[p].ret < 0
       THEN proc' = [proc EXCEPT ![p].pc = "exit", ![p].status = 1]
       ELSE \E ok \in BOOLEAN :
              LET m == [proc[p] EXCEPT !.main_lock = proc[p].ret] IN
              IF ok
              THEN proc' = [proc EXCEPT
                     ![p] = [m EXCEPT !.fork_ret = 1, !.main_role = 0, !.iter = 0,
                                      !.pc = "pt_loop"],
                     ![1] = [m EXCEPT !.fork_ret = 0, !.main_role = 1, !.iter = 0,
                                      !.pc = "pt_loop"]]
              ELSE proc' = [proc EXCEPT ![p] =
                     CallDestroy([m EXCEPT !.fork_ret = -1, !.status = 1],
                                 m.main_lock, "pt_destroyed")]
    /\ UNCHANGED <<ptable, ptable_lock, lk, prog, obs>>

\* where a process goes when the loop is over or a call in it has failed
\* (lines 32-34, 52-54, 61-69): main waits for the child and destroys the
\* lock, the child exits
PtLeaveLoop(pr, status) ==
    [pr EXCEPT !.status = status,
               !.pc = IF pr.fork_ret > 0 THEN "pt_wait" ELSE "exit"]

\* line 27-29: the loop test and the call of peterson_acquire
PtLoop(p) ==
    /\ proc[p].pc = "pt_loop"
    /\ proc' = [proc EXCEPT ![p] =
                  IF proc[p].iter < MaxIter
                  THEN CallAcquire(proc[p], proc[p].main_lock, proc[p].main_role,
                                   "pt_acquired")
                  ELSE PtLeaveLoop(proc[p], 0)]
    /\ UNCHANGED <<ptable, ptable_lock, lk, prog, obs>>

\* lines 29-37: peterson_acquire has returned
PtAcquired(p) ==
    /\ proc[p].pc = "pt_acquired"
    /\ proc' = [proc EXCEPT ![p] =
                  IF proc[p].ret < 0 THEN PtLeaveLoop(proc[p], 1)
                  ELSE [proc[p] EXCEPT !.pc = "pt_cs"]]
    /\ UNCHANGED <<ptable, ptable_lock, lk, prog, obs>>

\* lines 37-49: the critical section ends, the call of peterson_release
PtCs(p) ==
    /\ proc[p].pc = "pt_cs"
    /\ proc' = [proc EXCEPT ![p] =
                  CallRelease(proc[p], proc[p].main_lock, proc[p].main_role,
                              "pt_released")]
    /\ UNCHANGED <<ptable, ptable_lock, lk, prog, obs>>

\* lines 49-58: peterson_release has returned; i++
PtReleased(p) ==
    /\ proc[p].pc = "pt_released"
    /\ proc' = [proc EXCEPT ![p] =
                  IF proc[p].ret < 0 THEN PtLeaveLoop(proc[p], 1)
                  ELSE [proc[p] EXCEPT !.iter = @ + 1, !.pc = "pt_loop"]]
    /\ UNCHANGED <<ptable, ptable_lock, lk, prog, obs>>

\* wait(0) returns when the child has exited; main calls peterson_destroy
\* (lines 33-34, 53-54, 63-65)
PtWait(p) ==
    /\ proc[p].pc = "pt_wait"
    /\ \A q \in PtProcs \ {p} : proc[q].pc = "exit"
    /\ proc' = [proc EXCEPT ![p] =
                  CallDestroy(proc[p], proc[p].main_lock, "pt_destroyed")]
    /\ UNCHANGED <<ptable, ptable_lock, lk, prog, obs>>

\* lines 65-76: peterson_destroy has returned, exit
PtDestroyed(p) ==
    /\ proc[p].pc = "pt_destroyed"
    /\ proc' = [proc EXCEPT ![p].pc = "exit",
                            ![p].status = IF proc[p].ret < 0 THEN 1 ELSE @]
    /\ UNCHANGED <<ptable, ptable_lock, lk, prog, obs>>

Ptest(p) ==
    \/ PtStart(p) \/ PtCreated(p) \/ PtLoop(p) \/ PtAcquired(p)
    \/ PtCs(p) \/ PtReleased(p) \/ PtWait(p) \/ PtDestroyed(p)

PtestInit ==
    /\ prog = "ptest"
    /\ \E pre \in 0 .. MaxPre : ptable = PoolAfter(pre)
    /\ ptable_lock = NoProc
    /\ lk = [i \in Slots |-> NoProc]
    /\ proc = [p \in PtProcs |->
                 IF p = 0 THEN [NewProc EXCEPT !.pc = "pt_start"] ELSE NewProc]
    /\ obs = NewObs

PtestNext ==
    \E p \in PtProcs :
        SysCreate(p) \/ SysAcquire(p) \/ SysRelease(p) \/ SysDestroy(p) \/ Ptest(p)

SpecPtest == PtestInit /\ [][PtestNext]_vars

----------------------------------------------------------------------------
(* A sequential client of the pool: one context that calls peterson_create *)
(* up to NPETERSONLOCKS + 1 times, and peterson_destroy up to MaxDestroys  *)
(* times in between, starting from the pool peterson_init leaves.          *)

ClientProcs == 0 .. 0

ClientCall(p) ==
    /\ prog = "client"
    /\ proc[p].pc = "user"
    /\ \E c \in  (IF Len(obs.handles) <= NPETERSONLOCKS
                  THEN {CallCreate(proc[p], "user")} ELSE {})
            \cup (IF obs.destroys < MaxDestroys
                  THEN {CallDestroy(proc[p], h, "user") : h \in Slots} ELSE {}) :
         /\ proc' = [proc EXCEPT ![p] = c]
         /\ obs' = [obs EXCEPT !.snap = ptable,
                               !.destroys = IF c.op = "destroy" THEN @ + 1 ELSE @]
    /\ UNCHANGED <<ptable, ptable_lock, lk, prog>>

ClientInit ==
    /\ prog = "client"
    /\ PetersonInit
    /\ proc = [p \in ClientProcs |-> [NewProc EXCEPT !.pc = "user"]]
    /\ obs = NewObs

ClientNext ==
    \E p \in ClientProcs : SysCreate(p) \/ SysDestroy(p) \/ ClientCall(p)

SpecClient == ClientInit /\ [][ClientNext]_vars

----------------------------------------------------------------------------
(* Teardown of a lock in use: on the allocated slot 0, context 0 calls     *)
(* peterson_acquire(0, 0) and may call peterson_release(0, 0) afterwards,  *)
(* context 1 calls peterson_acquire(0, 1), context 2 calls                 *)
(* peterson_destroy(0).  Each makes its calls when it chooses to, or not   *)
(* at all.                                                                 *)

TdProcs == 0 .. 2

TeardownCall(p) ==
    /\ prog = "teardown"
    /\ proc[p].pc = "user"
    /\ LET pr == [proc[p] EXCEPT !.ops = @ + 1] IN
       proc' = [proc EXCEPT ![p] =
           IF p = 2 THEN CallDestroy(pr, 0, "user")
           ELSE IF proc[p].ops = 0 THEN CallAcquire(pr, 0, p, "user")
           ELSE CallRelease(pr, 0, p, "user")]
    /\ proc[p].ops < (IF p = 0 /\ proc[p].ret = 0 THEN 2 ELSE 1)
    /\ UNCHANGED <<ptable, ptable_lock, lk, prog, obs>>

TeardownInit ==
    /\ prog = "teardown"
    /\ ptable = PoolAfter(1)
    /\ ptable_lock = NoProc
    /\ lk = [i \in Slots |-> NoProc]
    /\ proc = [p \in TdProcs |-> [NewProc EXCEPT !.pc = "user"]]
    /\ obs = NewObs

\* the steps of a process inside a system call
TeardownKernel(p) == SysAcquire(p) \/ SysRelease(p) \/ SysDestroy(p)

TeardownNext == \E p \in TdProcs : TeardownKernel(p) \/ TeardownCall(p)

SpecTeardown == TeardownInit /\ [][TeardownNext]_vars

\* fair scheduling: a process inside a system call that can run does run.
\* No process is made to begin a call
FairTeardown ==
    /\ SpecTeardown
    /\ \A p \in TdProcs : WF_vars(TeardownKernel(p))

----------------------------------------------------------------------------
(* Callers that pass any argument: NCallers contexts, each making up to    *)
(* MaxOps system calls with handles in and out of range and roles in and   *)
(* out of {0, 1}, on a pool in which earlier programs hold up to MaxPre    *)
(* locks.                                                                  *)

Callers == 0 .. (NCallers - 1)

\* the handles passed: those of the pool program, and the nearest values
\* out of range on either side
AnyHandles == {-1} \cup PoolHandles \cup {NPETERSONLOCKS}

AnyRoles == (-1) .. 2

\* the system calls user code can make, as (op, h, r); create takes no
\* argument and destroy no role
AnyCalls ==
    {[op |-> "create", h |-> 0, r |-> 0]}
    \cup {[op |-> "destroy", h |-> h, r |-> 0] : h \in AnyHandles}
    \cup {[op |-> o, h |-> h, r |-> r] :
             o \in {"acquire", "release"}, h \in AnyHandles, r \in AnyRoles}

\* the process pr makes the call c
MakeCall(pr, c) ==
    IF c.op = "create" THEN CallCreate(pr, "user")
    ELSE IF c.op = "destroy" THEN CallDestroy(pr, c.h, "user")
    ELSE IF c.op = "acquire" THEN CallAcquire(pr, c.h, c.r, "user")
    ELSE CallRelease(pr, c.h, c.r, "user")

CallerCall(p) ==
    /\ prog = "callers"
    /\ proc[p].pc = "user"
    /\ proc[p].ops < MaxOps
    /\ \E c \in AnyCalls :
         /\ proc' = [proc EXCEPT ![p] = MakeCall([proc[p] EXCEPT !.ops = @ + 1], c)]
         /\ obs' = [obs EXCEPT !.call[p] = c]
    /\ UNCHANGED <<ptable, ptable_lock, lk, prog>>

CallersInit ==
    /\ prog = "callers"
    /\ \E pre \in 0 .. MaxPre : ptable = PoolAfter(pre)
    /\ ptable_lock = NoProc
    /\ lk = [i \in Slots |-> NoProc]
    /\ proc = [p \in Callers |-> [NewProc EXCEPT !.pc = "user"]]
    /\ obs = NewObs

CallersNext ==
    \E p \in Callers :
        SysCreate(p) \/ SysAcquire(p) \/ SysRelease(p) \/ SysDestroy(p) \/ CallerCall(p)

SpecCallers == CallersInit /\ [][CallersNext]_vars

----------------------------------------------------------------------------
(* The tournament program (user/tournament.c) and other callers of the     *)
(* library: process 0 starts in main with argv[1] = arg, or calls          *)
(* tournament_create(arg) itself without main's checks; process k is the   *)
(* child of the k-th fork.                                                 *)

TourProcs == 0 .. (2 ^ MaxLevels - 1)

\* tournament.c, lines 15-29: main checks argv[1] and calls tournament_create
TmStart(p) ==
    LET n == proc[p].arg IN
    /\ prog = "tournament"
    /\ proc[p].pc = "tm_start"
    /\ \E mem \in BOOLEAN :
         proc' = [proc EXCEPT ![p] =
             IF n <= 0 \/ n > 16
             THEN [proc[p] EXCEPT !.pc = "exit", !.status = 1]
             ELSE IF n # 1 /\ BitAnd(n, n - 1) # 0
             THEN [proc[p] EXCEPT !.pc = "exit", !.status = 1]
             ELSE TournamentCreateEntry(proc[p], n, mem)]
    /\ UNCHANGED <<ptable, ptable_lock, lk, prog, obs>>

\* a caller that hands its argument to tournament_create unchecked
TcStart(p) ==
    /\ prog = "tournament"
    /\ proc[p].pc = "tc_start"
    /\ \E mem \in BOOLEAN :
         proc' = [proc EXCEPT ![p] = TournamentCreateEntry(proc[p], proc[p].arg, mem)]
    /\ UNCHANGED <<ptable, ptable_lock, lk, prog, obs>>

\* tournament_create: peterson_create() returns into the loop of line 143
TcCreated(p) ==
    /\ proc[p].pc = "tc_created"
    /\ proc' = [proc EXCEPT ![p] = TournamentCreateLoop(proc[p])]
    /\ UNCHANGED <<ptable, ptable_lock, lk, prog, obs>>

\* a faulty fork loop: the child does not set its id (line 168)
TcForkChildKeepsId(p) ==
    LET pr == proc[p]
        k  == pr.k
    IN
    /\ pr.pc = "tc_fork"
    /\ IF k < pr.N_processes
       THEN \E ok \in BOOLEAN :
              IF ok
              THEN proc' = [proc EXCEPT
                       ![k] = [pr EXCEPT !.ret = pr.my_id, !.pc = "tm_created"],
                       ![p] = [pr EXCEPT !.k = k + 1]]
              ELSE proc' = [proc EXCEPT ![p] = LibReturn(pr, -1, "tm_created", "exit")]
       ELSE proc' = [proc EXCEPT ![p] = LibReturn(pr, pr.my_id, "tm_created", "exit")]
    /\ UNCHANGED <<ptable, ptable_lock, lk, prog, obs>>

\* tournament_create, lines 159-177: one fork(), and the return of the
\* parent after the last one; ok says whether fork succeeds
TcFork(p) ==
    LET pr == proc[p]
        k  == pr.k
    IN
    /\ pr.pc = "tc_fork"
    /\ IF k < pr.N_processes
       THEN \E ok \in BOOLEAN :
              IF ok
              THEN proc' = [proc EXCEPT
                       ![k] = [pr EXCEPT !.my_id = k, !.ret = k, !.pc = "tm_created"],
                       ![p] = [pr EXCEPT !.k = k + 1]]
              ELSE proc' = [proc EXCEPT ![p] = LibReturn(pr, -1, "tm_created", "exit")]
       ELSE proc' = [proc EXCEPT ![p] = LibReturn(pr, pr.my_id, "tm_created", "exit")]
    /\ UNCHANGED <<ptable, ptable_lock, lk, prog, obs>>

\* tournament.c, line 39: main calls tournament_acquire
TmAcquire(p) ==
    /\ proc[p].pc = "tm_created"
    /\ proc' = [proc EXCEPT ![p] = TournamentAcquireEntry(proc[p])]
    /\ UNCHANGED <<ptable, ptable_lock, lk, prog, obs>>

\* peterson_acquire has returned into tournament_acquire
TaRet(p) ==
    /\ proc[p].pc = "ta_ret"
    /\ proc' = [proc EXCEPT ![p] = TournamentAcquireRet(proc[p])]
    /\ UNCHANGED <<ptable, ptable_lock, lk, prog, obs>>

\* tournament.c, lines 44-53: the critical section ends and main calls
\* tournament_release
TmRelease(p) ==
    /\ proc[p].pc = "tm_cs"
    /\ proc' = [proc EXCEPT ![p] = TournamentReleaseEntry(proc[p])]
    /\ UNCHANGED <<ptable, ptable_lock, lk, prog, obs>>

\* peterson_release has returned into tournament_release
TrRet(p) ==
    /\ proc[p].pc = "tr_ret"
    /\ proc' = [proc EXCEPT ![p] = TournamentReleaseRet(proc[p])]
    /\ UNCHANGED <<ptable, ptable_lock, lk, prog, obs>>

\* a participant that goes round again: the next tournament_acquire
TmAgain(p) ==
    /\ proc[p].pc = "tm_released"
    /\ proc' = [proc EXCEPT ![p].pc = "tm_created"]
    /\ UNCHANGED <<ptable, ptable_lock, lk, prog, obs>>

\* tournament.c, lines 58-70: the children exit, the parent waits for them
TmFinish(p) ==
    /\ proc[p].pc = "tm_released"
    /\ proc' = [proc EXCEPT ![p].pc = IF proc[p].my_id = 0 THEN "tm_wait" ELSE "exit"]
    /\ UNCHANGED <<ptable, ptable_lock, lk, prog, obs>>

\* the parent's wait() calls return once every child has exited
TmWait(p) ==
    /\ proc[p].pc = "tm_wait"
    /\ \A q \in Procs \ {p} : proc[q].pc \in {"none", "exit"}
    /\ proc' = [proc EXCEPT ![p].pc = "exit"]
    /\ UNCHANGED <<ptable, ptable_lock, lk, prog, obs>>

\* the steps of main and of tournament_create
TournamentMain(p) ==
    \/ TmStart(p) \/ TcStart(p) \/ TcCreated(p) \/ TcFork(p)
    \/ TmAcquire(p) \/ TmRelease(p)
    \/ TmAgain(p) \/ TmFinish(p) \/ TmWait(p)

\* the steps of tournament_acquire and tournament_release between two
\* system calls
TournamentRet(p) == TaRet(p) \/ TrRet(p)

\* the arguments tried: every count the library rejects, and the counts it
\* accepts up to 2^MaxLevels
TourArgs ==
    {n \in (-1) .. (2 * MaxTournamentProcs + 1) :
        \/ get_log2_if_power_of_2(n) = -1
        \/ n > MaxTournamentProcs
        \/ n <= 2 ^ MaxLevels}

\* the locks other programs hold when the tournament starts: at most MaxPre,
\* or all but at most MaxPre + 1 of the pool
TourPre == (0 .. MaxPre) \cup ((NPETERSONLOCKS - MaxPre - 1) .. NPETERSONLOCKS)

TourInit ==
    /\ prog = "tournament"
    /\ \E pre \in TourPre : ptable = PoolAfter(pre)
    /\ ptable_lock = NoProc
    /\ lk = [i \in Slots |-> NoProc]
    /\ \E n \in TourArgs, entry \in {"tm_start", "tc_start"} :
         proc = [p \in TourProcs |->
                   IF p = 0 THEN [NewProc EXCEPT !.pc = entry, !.arg = n] ELSE NewProc]
    /\ obs = NewObs

\* no process of the tournament calls peterson_destroy
TourStep(p) ==
    \/ SysCreate(p) \/ SysAcquire(p) \/ SysRelease(p)
    \/ TournamentMain(p) \/ TournamentRet(p)

TourNext == \E p \in TourProcs : TourStep(p)

SpecTournament == TourInit /\ [][TourNext]_vars

(* A slot's spinlock is held only while its holder runs straight-line code *)
(* on that slot, and the library code between two system calls reads and   *)
(* writes the process's own memory only.  Taking the spinlock, running to  *)
(* its release and on to the next system call can therefore be seen as one *)
(* step: the same table contents are reached in the same order.  These are *)
(* the steps of peterson_acquire and peterson_release seen that way.       *)

LeaveResumed(p, r) ==
    \E pr \in {Resume(r.pr)} : Leave(p, proc[p].lock_id, [r EXCEPT !.pr = pr])

AcquireEnter(p) ==
    /\ proc[p].pc = "acquire_lk"
    /\ lk[proc[p].lock_id] = NoProc
    /\ \E r \in {AnnounceRegion(p)} : LeaveResumed(p, r)

AcquireRetry(p) ==
    /\ proc[p].pc = "acquire_yield"
    /\ lk[proc[p].lock_id] = NoProc
    /\ \E r \in {RecheckRegion(p)} : LeaveResumed(p, r)

ReleaseWhole(p) ==
    /\ proc[p].pc = "release_lk"
    /\ lk[proc[p].lock_id] = NoProc
    /\ \E r \in {ClearRegion(p)} : LeaveResumed(p, r)

TourStepAtomic(p) ==
    \/ SysCreate(p)
    \/ AcquireEnter(p) \/ AcquireRetry(p) \/ ReleaseWhole(p)
    \/ TournamentMain(p)

TourNextAtomic == \E p \in TourProcs : TourStepAtomic(p)

\* fair scheduling: a process that can run does run
FairTournament ==
    /\ TourInit /\ [][TourNextAtomic]_vars
    /\ \A p \in TourProcs : WF_vars(TourStepAtomic(p))

----------------------------------------------------------------------------
(* Participants followed through the tree: a tournament of any size the    *)
(* library accepts has been created on the empty pool, and NWalkers of its *)
(* participants call tournament_acquire and tournament_release once while  *)
(* the others have not run yet.                                            *)

Walkers == 0 .. (NWalkers - 1)

\* the participant counts with at least one lock
TreeSizes == {n \in 2 .. MaxTournamentProcs : get_log2_if_power_of_2(n) > 0}

\* a participant with id my_id as tournament_create(n) on the empty pool
\* returns it (lines 132-177)
Participant(n, my_id) ==
    [NewProc EXCEPT !.pc = "tm_created", !.fn = "tournament_create",
                    !.ret = my_id, !.my_id = my_id, !.arg = n,
                    !.N_processes = n, !.num_total_locks = n - 1,
                    !.L_levels = get_log2_if_power_of_2(n),
                    !.peterson_lock_ids_array = [j \in 1 .. (n - 1) |-> j - 1]]

WalkInit ==
    /\ prog = "walk"
    /\ ptable_lock = NoProc
    /\ lk = [i \in Slots |-> NoProc]
    /\ \E n \in TreeSizes :
         /\ ptable = PoolAfter(n - 1)
         /\ \E id \in [Walkers -> 0 .. (n - 1)] :
              /\ \A p, q \in Walkers : p # q => id[p] # id[q]
              /\ proc = [p \in Walkers |-> Participant(n, id[p])]
    /\ obs = NewObs

WalkStep(p) ==
    \/ SysAcquire(p) \/ SysRelease(p)
    \/ TmAcquire(p) \/ TaRet(p) \/ TmRelease(p) \/ TrRet(p)

WalkNext == \E p \in Walkers : WalkStep(p)

SpecWalk == WalkInit /\ [][WalkNext]_vars

----------------------------------------------------------------------------
(* A tournament whose tree is damaged: tournament_create has built a tree  *)
(* of up to 2^MaxLevels participants on the empty pool, each participant   *)
(* calls tournament_acquire and tournament_release once, and one more      *)
(* process calls peterson_destroy on locks of the tree, up to MaxDestroys  *)
(* times, when it chooses to.                                              *)

Destroyer == 2 ^ MaxLevels

\* peterson_destroy(h) on a lock of the tree
DestroyerCall(p) ==
    /\ prog = "damaged"
    /\ p = Destroyer
    /\ proc[p].pc = "user"
    /\ proc[p].ops < MaxDestroys
    /\ \E h \in 0 .. (proc[0].N_processes - 2) :
         proc' = [proc EXCEPT ![p] =
                    CallDestroy([proc[p] EXCEPT !.ops = @ + 1], h, "user")]
    /\ UNCHANGED <<ptable, ptable_lock, lk, prog, obs>>

DamagedInit ==
    /\ prog = "damaged"
    /\ ptable_lock = NoProc
    /\ lk = [i \in Slots |-> NoProc]
    /\ \E n \in {m \in TreeSizes : m <= 2 ^ MaxLevels} :
         /\ ptable = PoolAfter(n - 1)
         /\ proc = [p \in TourProcs \cup {Destroyer} |->
                      IF p = Destroyer THEN [NewProc EXCEPT !.pc = "user"]
                      ELSE IF p < n THEN Participant(n, p)
                      ELSE NewProc]
    /\ obs = NewObs

DamagedStep(p) ==
    \/ SysAcquire(p) \/ SysRelease(p) \/ SysDestroy(p)
    \/ TmAcquire(p) \/ TaRet(p) \/ TmRelease(p) \/ TrRet(p)
    \/ DestroyerCall(p)

DamagedNext == \E p \in TourProcs \cup {Destroyer} : DamagedStep(p)

SpecDamaged == DamagedInit /\ [][DamagedNext]_vars

----------------------------------------------------------------------------
(* Properties *)

\* p is between a successful peterson_acquire and the end of the
\* peterson_release that follows it
PtHolding(p) ==
    \/ proc[p].pc = "pt_acquired" /\ proc[p].ret = 0
    \/ proc[p].pc = "pt_cs"
    \/ proc[p].pc \in {"release_lk", "release_clear"}

\* p waits in the loop of sys_peterson_acquire, its interest announced
PtWaiting(p) == proc[p].pc \in {"acquire_yield", "acquire_recheck"}

\* C1: two-party mutual exclusion.  In ptest, where the parent (role 0) and
\* the child (role 1) cycle acquire, critical section, release on one lock
\* that is not destroyed before both have finished, the two are never both
\* between a successful peterson_acquire and the release that follows.
C1_TwoPartyMutex == ~(PtHolding(0) /\ PtHolding(1))

\* one process is in its critical section in a later iteration while the
\* other waits in the loop
C1_Witness ==
    /\ proc[0].pc = "pt_cs" /\ proc[0].iter >= 1
    /\ PtWaiting(1) /\ proc[1].iter >= 1

\* C2: tree mutual exclusion.  With the participants of a tournament each
\* cycling tournament_acquire, critical section, tournament_release, at most
\* one participant is inside its critical section.
C2_TreeMutex == Cardinality({p \in TourProcs : proc[p].pc = "tm_cs"}) <= 1

\* of four participants one is in its critical section while another waits
\* at the root and a third has been through its critical section
C2_Witness ==
    \E p, q, r \in TourProcs :
        /\ proc[p].pc = "tm_cs" /\ proc[p].N_processes = 4
        /\ proc[q].pc = "acquire_yield" /\ proc[q].l = 0
        /\ proc[r].pc = "tm_released"

\* C3: a peterson_acquire during whose wait the slot was destroyed returns
\* -1, whatever calls of other contexts interleave before the waiter tests
\* the slot again.
C3_DestroyedWhileWaiting ==
    \A p \in Ctxs :
        (proc[p].pc = "user" /\ proc[p].op = "acquire" /\ obs.dwait[p])
            => proc[p].ret = -1

\* C4: teardown does not hang.  When the slot is destroyed while context 1
\* waits in peterson_acquire(0, 1), context 1 begins no further yield and
\* its call returns -1, whether or not context 0 ever calls
\* peterson_release.
C4_TeardownNoHang ==
    /\ [](obs.yld[1] = 0)
    /\ obs.dwait[1] ~> (proc[1].pc = "user" /\ proc[1].ret = -1)

\* context 0 holds the lock and never released it, the lock was destroyed
\* under the waiting context 1, whose call has returned
C4_Witness ==
    /\ obs.dwait[1] /\ proc[1].pc = "user" /\ proc[1].op = "acquire"
    /\ proc[0].pc = "user" /\ proc[0].op = "acquire" /\ proc[0].ret = 0
    /\ proc[2].pc = "user" /\ proc[2].op = "destroy" /\ proc[2].ret = 0

\* C5: bounded waiting.  In ptest, once a process has announced its interest
\* and handed the turn over, the other process is granted the lock at most
\* once before it; and no process is granted the lock more than twice in a
\* row while the other waits with its request announced.
C5_BoundedWaiting ==
    /\ \A p \in PtProcs : obs.byp[p] <= 1
    /\ obs.run <= 2

\* the child waits with its request announced and the parent has been
\* granted the lock once since
C5_Witness == PtWaiting(1) /\ obs.byp[1] = 1 /\ obs.last = 0 /\ obs.run = 1

\* p is inside tournament_acquire
Acquiring(p) ==
    /\ proc[p].fn = "tournament_acquire"
    /\ proc[p].pc \in {"acquire_lk", "acquire_set", "acquire_yield",
                       "acquire_recheck", "ta_ret"}

\* a tournament_acquire of p has returned -1
AcquireFailed(p) ==
    proc[p].fn = "tournament_acquire" /\ proc[p].pc = "exit" /\ proc[p].ret < 0

\* C6: tournament progress.  Under fair scheduling, every participant that
\* calls tournament_acquire leaves it again, and no tournament_acquire ever
\* fails: each call returns 0.
C6_TournamentProgress ==
    /\ \A p \in TourProcs : []<>(~Acquiring(p))
    /\ [](\A p \in TourProcs : ~AcquireFailed(p))

\* participant 3 of four is in its critical section while participant 0
\* waits inside tournament_acquire and participant 1 has left the tournament
C6_Witness ==
    /\ proc[3].pc = "tm_cs" /\ proc[3].N_processes = 4
    /\ Acquiring(0) /\ proc[0].pc = "acquire_yield"
    /\ proc[1].pc = "exit" /\ proc[1].fn = "tournament_release"

\* C7: exclusive allocation.  No slot is handed out by peterson_alloc while
\* an earlier hand-out of it has not been destroyed, and a
\* sys_peterson_create about to return a handle returns that of an active
\* slot.
C7_ExclusiveAllocation ==
    /\ ~obs.dup
    /\ \A p \in Ctxs :
         (proc[p].pc = "create_release" /\ proc[p].id >= 0)
            => ptable[proc[p].id].active = 1 /\ obs.alloc[proc[p].id]

\* two peterson_create calls have returned the same handle, a third context
\* having destroyed it in between
C7_Witness ==
    \E p, q, r \in Ctxs :
        /\ p # q
        /\ proc[p].pc = "user" /\ proc[p].op = "create" /\ proc[p].ret = 0
        /\ proc[q].pc = "user" /\ proc[q].op = "create" /\ proc[q].ret = 0
        /\ proc[r].op = "destroy" /\ proc[r].ret = 0 /\ proc[r].pc = "user"

\* C8: pool exhaustion.  From the empty pool, while nothing is destroyed the
\* first NPETERSONLOCKS calls of peterson_create return distinct handles and
\* the next returns -1; and a peterson_create returns -1 exactly when every
\* slot was active when it was called, and then leaves the table as it was.
C8_PoolExhaustion ==
    /\ obs.destroys = 0 =>
         \A k \in 1 .. Len(obs.handles) :
            IF k <= NPETERSONLOCKS
            THEN /\ obs.handles[k] \in Slots
                 /\ \A j \in 1 .. (k - 1) : obs.handles[j] # obs.handles[k]
            ELSE obs.handles[k] = -1
    /\ (proc[0].pc = "user" /\ proc[0].op = "create") =>
         /\ proc[0].ret = -1 <=> \A i \in Slots : obs.snap[i].active = 1
         /\ proc[0].ret = -1 => ptable = obs.snap

\* the call after NPETERSONLOCKS successful ones has returned -1
C8_Witness ==
    /\ obs.destroys = 0
    /\ Len(obs.handles) = NPETERSONLOCKS + 1
    /\ obs.handles[NPETERSONLOCKS + 1] = -1
    /\ proc[0].pc = "user"

\* the participant counts tournament_create has to reject
InvalidParticipantCount(n) ==
    n <= 0 \/ n > 16 \/ ~(\E e \in 0 .. 4 : n = 2 ^ e)

\* C9: input validation.  Called with a count that is <= 0, > 16 or no
\* power of two, tournament_create returns -1, the table is as it was when
\* the program started and no process has been forked.
C9_InputValidation ==
    (InvalidParticipantCount(proc[0].arg) /\ proc[0].fn = "tournament_create")
        => /\ proc[0].pc = "exit" /\ proc[0].ret = -1
           /\ ptable = obs.snap
           /\ \A p \in TourProcs \ {0} : proc[p].pc = "none"

\* tournament_create(3) has returned -1 with one lock of an earlier program
\* in the pool
C9_Witness ==
    /\ proc[0].arg = 3 /\ proc[0].fn = "tournament_create"
    /\ proc[0].pc = "exit" /\ proc[0].ret = -1
    /\ ptable[0].active = 1

RECURSIVE Reverse(_)
Reverse(sq) == IF sq = <<>> THEN <<>> ELSE Append(Reverse(Tail(sq)), Head(sq))

\* p is participant id of four and its tournament_acquire has returned 0
AcquiredOfFour(p, id) ==
    proc[p].pc = "tm_cs" /\ proc[p].N_processes = 4 /\ proc[p].my_id = id

\* p is participant id of four and its tournament_release has returned 0
ReleasedOfFour(p, id) ==
    proc[p].pc = "tm_released" /\ proc[p].N_processes = 4 /\ proc[p].my_id = id

\* C10, as the code has it: with four participants, participant 0 calls
\* peterson_acquire with (array index, role) = (1,0) and then (0,0),
\* participant 3 with (2,1) and then (0,1): the leaf level first, the root
\* last; tournament_release makes its calls in the reverse order.
C10_TreeIndexLeafFirst ==
    \A p \in TourProcs :
        /\ AcquiredOfFour(p, 0) => proc[p].acq = << <<1, 0>>, <<0, 0>> >>
        /\ AcquiredOfFour(p, 3) => proc[p].acq = << <<2, 1>>, <<0, 1>> >>
        /\ ReleasedOfFour(p, 0) => proc[p].rel = << <<0, 0>>, <<1, 0>> >>
        /\ ReleasedOfFour(p, 3) => proc[p].rel = << <<0, 1>>, <<2, 1>> >>
        /\ (ReleasedOfFour(p, 0) \/ ReleasedOfFour(p, 3))
              => proc[p].rel = Reverse(proc[p].acq)

\* participant 3 of four has released while participant 0 is in its critical
\* section, the locks of the tree not being slots 0, 1, 2
C10_Witness ==
    /\ ReleasedOfFour(3, 3) /\ AcquiredOfFour(0, 0)
    /\ proc[0].peterson_lock_ids_array = <<1, 2, 3>>

\* C10, as stated: participant 0 calls peterson_acquire with (0,0) and then
\* (1,0), participant 3 with (0,1) and then (2,1).
C10_TreeIndexAsStated ==
    \A p \in TourProcs :
        /\ AcquiredOfFour(p, 0) => proc[p].acq = << <<0, 0>>, <<1, 0>> >>
        /\ AcquiredOfFour(p, 3) => proc[p].acq = << <<0, 1>>, <<2, 1>> >>
        /\ (ReleasedOfFour(p, 0) \/ ReleasedOfFour(p, 3))
              => proc[p].rel = Reverse(proc[p].acq)

\* the step is one of process p that begins at pc
StepFrom(p, pc) == proc[p].pc = pc /\ proc'[p] # proc[p]

\* what a step of caller p has to do when it belongs to peterson_destroy(h)
DestroyStepOk(p) ==
    LET h == obs'.call[p].h IN
    /\ (StepFrom(p, "user") /\ obs'.call[p].op = "destroy") =>
          /\ ptable' = ptable
          /\ IF h < 0 \/ h >= NPETERSONLOCKS
             THEN proc'[p].pc = "user" /\ proc'[p].ret = -1
             ELSE proc'[p].pc = "destroy_acquire" /\ proc'[p].lock_id = h
    /\ (StepFrom(p, "destroy_acquire") \/ StepFrom(p, "destroy_lk")) =>
          ptable' = ptable
    /\ StepFrom(p, "destroy_free") =>
          /\ proc'[p].pc = "user"
          /\ IF ptable[h].active = 1
             THEN /\ proc'[p].ret = 0
                  /\ ptable' = [ptable EXCEPT ![h] =
                                  [active |-> 0, flag |-> [r \in Roles |-> 0],
                                   turn |-> 0]]
             ELSE /\ proc'[p].ret = -1
                  /\ ptable' = ptable
          /\ proc'[p].ret = 0 => obs.alloc[h]

\* C11: peterson_destroy(h) never panics.  With h out of range it returns -1
\* at once; on an inactive slot it returns -1, so the second of two destroys
\* of a handle with no create between them fails; in both cases the table is
\* left as it was.  On an active slot it returns 0 and leaves the slot
\* inactive with both flags and the turn 0.
C11_DestroyContract ==
    /\ [](\A p \in Callers : proc[p].pc # "panic")
    /\ [][\A p \in Callers : DestroyStepOk(p)]_vars

\* the slot earlier programs left allocated has been destroyed by one caller
\* and the other caller's destroy of it has failed, neither having made
\* another call
C11_Witness ==
    \E p, q \in Callers :
        /\ obs.call[p] = [op |-> "destroy", h |-> 0, r |-> 0]
        /\ proc[p].pc = "user" /\ proc[p].ret = 0 /\ proc[p].ops = 1
        /\ obs.call[q] = [op |-> "destroy", h |-> 0, r |-> 0]
        /\ proc[q].pc = "user" /\ proc[q].ret = -1 /\ proc[q].ops = 1

\* what a step of caller p has to do when it belongs to a peterson_acquire
\* or peterson_release that is to be rejected
RejectStepOk(p) ==
    LET c == obs'.call[p] IN
    /\ (StepFrom(p, "user") /\ c.op \in {"acquire", "release"}) =>
          /\ ptable' = ptable /\ lk' = lk
          /\ IF c.h \notin Slots \/ c.r \notin Roles
             THEN proc'[p].pc = "user" /\ proc'[p].ret = -1
             ELSE proc'[p].pc = IF c.op = "acquire" THEN "acquire_lk"
                                ELSE "release_lk"
    /\ (StepFrom(p, "acquire_lk") \/ StepFrom(p, "release_lk")) =>
          ptable' = ptable
    /\ ((StepFrom(p, "acquire_set") \/ StepFrom(p, "release_clear"))
            /\ ptable[c.h].active = 0) =>
          /\ proc'[p].pc = "user" /\ proc'[p].ret = -1
          /\ ptable' = ptable

\* C12: peterson_acquire and peterson_release reject bad calls without side
\* effects.  With a role other than 0 or 1 or a handle out of range the call
\* returns -1 at once; on an inactive slot it returns -1 from its check of
\* the slot; in each case the table is left as it was and the caller does
\* not enter the wait loop.
C12_RejectBadCalls == [][\A p \in Callers : RejectStepOk(p)]_vars

\* a peterson_acquire with role 2 on an active slot and a peterson_release on
\* an inactive slot have both returned -1
C12_Witness ==
    \E p, q \in Callers :
        /\ obs.call[p] = [op |-> "acquire", h |-> 0, r |-> 2]
        /\ proc[p].pc = "user" /\ proc[p].ret = -1
        /\ obs.call[q] = [op |-> "release", h |-> 0, r |-> 1]
        /\ proc[q].pc = "user" /\ proc[q].ret = -1
        /\ ptable[0].active = 0

\* tournament_create has returned its id to the initiating process
CreateSucceeded ==
    /\ proc[0].my_id = 0
    /\ proc[0].pc # "tc_fork"
    /\ ~(proc[0].fn = "tournament_create" /\ proc[0].pc = "exit")

\* the processes that exist
Participants == {p \in TourProcs : proc[p].pc # "none"}

\* the number of active slots of the table t
ActiveCount(t) == Cardinality({i \in Slots : t[i].active = 1})

\* C13: once tournament_create(n) has succeeded for the initiating process,
\* n is a power of two up to 16, exactly n - 1 slots have been allocated,
\* their handles are distinct and fill the lock array, there are exactly n
\* participants, their ids are distinct and are 0 .. n - 1, the initiating
\* process has id 0, and every participant has the same lock array, N and L.
C13_CreateResult ==
    CreateSucceeded =>
        LET n   == proc[0].N_processes
            ids == proc[0].peterson_lock_ids_array
        IN /\ n = proc[0].arg /\ n \in {1, 2, 4, 8, 16}
           /\ 2 ^ proc[0].L_levels = n
           /\ Len(ids) = n - 1
           /\ \A j, k \in 1 .. Len(ids) : j # k => ids[j] # ids[k]
           /\ \A j \in 1 .. Len(ids) :
                 /\ ids[j] \in Slots
                 /\ ptable[ids[j]].active = 1
                 /\ obs.snap[ids[j]].active = 0
           /\ ActiveCount(ptable) = ActiveCount(obs.snap) + n - 1
           /\ Cardinality(Participants) = n
           /\ {proc[p].my_id : p \in Participants} = 0 .. (n - 1)
           /\ \A p \in Participants :
                 /\ proc[p].peterson_lock_ids_array = ids
                 /\ proc[p].N_processes = n
                 /\ proc[p].L_levels = proc[0].L_levels

\* tournament_create(4) has just returned 0 to the initiating process, the
\* tree is in slots 1, 2, 3 and the last child is in its critical section
C13_Witness ==
    /\ CreateSucceeded
    /\ proc[0].pc = "tm_created" /\ proc[0].fn = "tournament_create"
    /\ proc[0].ret = 0 /\ proc[0].N_processes = 4
    /\ proc[0].peterson_lock_ids_array = <<1, 2, 3>>
    /\ proc[3].pc = "tm_cs" /\ proc[3].my_id = 3

\* C15: no reclamation on allocation failure.  When a peterson_create of
\* tournament_create returns -1 after k successful ones, tournament_create
\* returns -1 without another call, no process has been forked, and the k
\* slots it allocated are still active.
C15_NoReclamation ==
    LET ids == proc[0].peterson_lock_ids_array
        k   == Len(ids) - 1
    IN (proc[0].fn = "tournament_create" /\ ids # <<>> /\ ids[Len(ids)] = -1)
          => /\ proc[0].pc = "exit" /\ proc[0].ret = -1
             /\ k < proc[0].num_total_locks
             /\ \A p \in TourProcs \ {0} : proc[p].pc = "none"
             /\ \A j \in 1 .. k :
                   ptable[ids[j]].active = 1 /\ obs.snap[ids[j]].active = 0
             /\ ActiveCount(ptable) = ActiveCount(obs.snap) + k
             /\ ActiveCount(ptable) = NPETERSONLOCKS

\* tournament_create(4) has failed at its third peterson_create, the first
\* two having taken the last free slots
C15_Witness ==
    /\ proc[0].fn = "tournament_create" /\ proc[0].arg = 4
    /\ proc[0].peterson_lock_ids_array = <<14, 15, -1>>
    /\ proc[0].pc = "exit" /\ proc[0].ret = -1

\* the slots whose spinlock p holds
HeldSlots(p) == {i \in Slots : lk[i] = p}

\* p is inside a system call
InKernel(p) == proc[p].pc \notin {"user", "panic"}

\* the holder of the spinlock p is about to take, NoProc when it is free or
\* p is not about to take one
WaitsFor(p) ==
    IF proc[p].pc \in {"create_acquire", "destroy_acquire"} THEN ptable_lock
    ELSE IF proc[p].pc = "alloc_acquire" THEN lk[proc[p].i]
    ELSE IF proc[p].pc \in {"acquire_lk", "acquire_yield", "release_lk",
                            "destroy_lk"}
         THEN lk[proc[p].lock_id]
    ELSE NoProc

RECURSIVE CanRun(_, _)
\* from p, going at most n times from a context to the holder of the
\* spinlock it waits for ends at a context inside a system call that waits
\* for no spinlock: that context can take its step
CanRun(p, n) ==
    IF WaitsFor(p) = NoProc THEN InKernel(p)
    ELSE IF n = 0 THEN FALSE
    ELSE CanRun(WaitsFor(p), n - 1)

\* C14: guard ordering.  A context takes ptable_lock only while it holds no
\* slot's spinlock, and never waits for it while holding one; only
\* peterson_create and peterson_destroy hold ptable_lock; and no set of
\* contexts waits in a circle: from every context inside a system call the
\* chain of holders ends at a context that can run.
C14_GuardOrder ==
    /\ [](\A p \in Ctxs :
            /\ proc[p].pc \in {"create_acquire", "destroy_acquire"}
                  => HeldSlots(p) = {}
            /\ ptable_lock = p => proc[p].op \in {"create", "destroy"}
            /\ (HeldSlots(p) # {} \/ ptable_lock = p) => InKernel(p)
            /\ InKernel(p) => CanRun(p, NCtx))
    /\ [][\A p \in Ctxs :
            (ptable_lock' = p /\ ptable_lock # p) => HeldSlots(p) = {}]_vars

\* a peterson_destroy holds ptable_lock and the slot's spinlock while a
\* peterson_create waits for the first and a peterson_acquire for the second
C14_Witness ==
    \E p, q, r \in Ctxs :
        /\ proc[p].pc = "destroy_free" /\ ptable_lock = p
        /\ lk[proc[p].lock_id] = p
        /\ proc[q].pc = "create_acquire"
        /\ proc[r].pc = "acquire_lk" /\ proc[r].lock_id = proc[p].lock_id

\* what a step of context p has to do when it belongs to peterson_create
CreateStepOk(p) ==
    /\ (StepFrom(p, "create_acquire") \/ StepFrom(p, "alloc_acquire")
            \/ StepFrom(p, "create_release")) => ptable' = ptable
    /\ StepFrom(p, "create_release") =>
          proc'[p].pc = "user" /\ proc'[p].ret = proc[p].id
    /\ StepFrom(p, "alloc_test") =>
          LET free == {i \in Slots : ptable[i].active = 0} IN
          IF proc'[p].pc = "create_release"
          THEN IF free = {}
               THEN proc'[p].id = -1 /\ ptable' = ptable
               ELSE /\ proc'[p].id \in free
                    /\ \A i \in free : proc'[p].id <= i
                    /\ ptable' = [ptable EXCEPT ![proc'[p].id] =
                                    [active |-> 1, flag |-> [r \in Roles |-> 0],
                                     turn |-> 0]]
          ELSE ptable' = ptable /\ proc[p].i \notin free

\* C19: peterson_create returns the lowest slot that is inactive when the
\* scan reaches it, leaves that slot active with both flags and the turn 0,
\* and changes no other slot; it returns -1, changing nothing, when every
\* slot is active.
C19_LowestFreeSlot == [][\A p \in Ctxs : CreateStepOk(p)]_vars

\* slot 0 has been destroyed and handed out again while slot 1 was
\* allocated
C19_Witness ==
    \E p, q, r \in Ctxs :
        /\ proc[p].pc = "user" /\ proc[p].op = "create" /\ proc[p].ret = 0
        /\ proc[q].pc = "user" /\ proc[q].op = "create" /\ proc[q].ret = 1
        /\ proc[r].pc = "user" /\ proc[r].op = "destroy" /\ proc[r].ret = 0
        /\ ptable[0].active = 1 /\ ptable[1].active = 1

\* C20: pool invariant.  Whatever calls interleave, an inactive slot has
\* both flags and the turn 0, and the turn of every slot is 0 or 1.
C20_PoolInvariant ==
    \A i \in Slots :
        /\ ptable[i].turn \in {0, 1}
        /\ ptable[i].active = 0 =>
              /\ ptable[i].flag[0] = 0 /\ ptable[i].flag[1] = 0
              /\ ptable[i].turn = 0

\* a peterson_acquire whose wait spanned the destroy of the slot has
\* returned -1, the slot is inactive, and another context has called
\* peterson_release on the destroyed handle
C20_Witness ==
    \E p, q \in Ctxs :
        /\ obs.dwait[p] /\ proc[p].pc = "user" /\ proc[p].op = "acquire"
        /\ proc[p].ret = -1
        /\ proc[q].pc = "user" /\ proc[q].op = "release" /\ proc[q].ret = -1
        /\ ptable[0].active = 0

\* the index idx is one of the 2^l nodes of level l of a tree laid out
\* breadth first
AtLevel(idx, l) == 2 ^ l - 1 <= idx /\ idx < 2 ^ (l + 1) - 1

\* C17: reverse traversal.  For every N in {2, 4, 8, 16} and every id,
\* tournament_acquire calls peterson_acquire once per level, from level
\* L - 1 down to level 0, L calls in all; tournament_release calls
\* peterson_release on the same (index, role) pairs in the reverse order;
\* every index is in 0 .. N - 2 and neither function takes an error branch.
C17_ReverseTraversal ==
    \A p \in Walkers :
        LET L   == proc[p].L_levels
            acq == proc[p].acq
            rel == proc[p].rel
        IN /\ proc[p].pc # "exit"
           /\ Len(acq) <= L /\ Len(rel) <= L
           /\ \A j \in 1 .. Len(acq) :
                 /\ acq[j][1] \in 0 .. (proc[p].N_processes - 2)
                 /\ acq[j][2] \in Roles
                 /\ AtLevel(acq[j][1], L - j)
           /\ proc[p].pc = "tm_cs" => Len(acq) = L
           /\ \A j \in 1 .. Len(rel) :
                 /\ Len(acq) = L
                 /\ rel[j] = acq[L + 1 - j]
                 /\ AtLevel(rel[j][1], j - 1)
           /\ proc[p].pc = "tm_released" => rel = Reverse(acq) /\ Len(rel) = L

\* participant 13 of 16 has been through tournament_acquire and
\* tournament_release while participant 12 waits for the lock they share
C17_Witness ==
    \E p, q \in Walkers :
        /\ proc[p].N_processes = 16 /\ proc[p].my_id = 13
        /\ proc[p].pc = "tm_released" /\ Len(proc[p].rel) = 4
        /\ proc[q].my_id = 12 /\ proc[q].pc = "acquire_yield"

\* bit b of the id x
BitOf(x, b) == (x \div 2 ^ b) % 2

\* C18: the index arithmetic is that of a binary tree laid out breadth
\* first.  The lock a participant uses at level l - 1 is the parent
\* (idx - 1) / 2 of the one it uses at level l, with role 0 when that one is
\* the left child and 1 when it is the right child; the indices of level l
\* lie in [2^l - 1, 2^(l+1) - 1); two participants use the same lock at level
\* l exactly when their ids agree above bit L - 1 - l, and then have
\* opposite roles exactly when they differ in bit L - 1 - l.
C18_BreadthFirstTree ==
    /\ \A p \in Walkers :
          LET L   == proc[p].L_levels
              acq == proc[p].acq
          IN /\ \A j \in 1 .. Len(acq) : AtLevel(acq[j][1], L - j)
             /\ \A j \in 2 .. Len(acq) :
                   LET child  == acq[j - 1][1]
                       parent == acq[j][1]
                   IN /\ parent = (child - 1) \div 2
                      /\ acq[j][2] = 0 <=> child = 2 * parent + 1
                      /\ acq[j][2] = 1 <=> child = 2 * parent + 2
    /\ \A p, q \in Walkers :
          p # q =>
            \A j \in 1 .. Len(proc[p].acq) :
               j <= Len(proc[q].acq) =>
                 LET L  == proc[p].L_levels
                     l  == L - j
                     a  == proc[p].acq[j]
                     b  == proc[q].acq[j]
                     x  == proc[p].my_id
                     y  == proc[q].my_id
                 IN /\ a[1] = b[1] <=> x \div 2 ^ (L - l) = y \div 2 ^ (L - l)
                    /\ a[1] = b[1] =>
                          (a[2] # b[2] <=> BitOf(x, L - 1 - l) # BitOf(y, L - 1 - l))

\* of 16 participants, 5 is in its critical section and 7 waits at level 2,
\* at the lock where their paths meet
C18_Witness ==
    \E p, q \in Walkers :
        /\ proc[p].N_processes = 16 /\ proc[p].my_id = 5 /\ proc[p].pc = "tm_cs"
        /\ proc[q].my_id = 7 /\ proc[q].pc = "acquire_yield" /\ proc[q].l = 2
        /\ proc[p].acq[2][1] = proc[q].acq[2][1]

\* a tournament_release of p has returned -1
ReleaseFailed(p) ==
    proc[p].fn = "tournament_release" /\ proc[p].pc = "exit" /\ proc[p].ret < 0

\* the flag that p's peterson_acquire recorded as pair = (index, role) set
\* is set, unless the slot has been destroyed since
StaysSet(p, pair) ==
    LET s == ptable[LockAt(proc[p], pair[1])] IN
    s.active = 1 => s.flag[pair[2]] = 1

\* what a step of p has to do when a system call returns -1 into
\* tournament_acquire or tournament_release, and once p has exited
FailedStepOk(p) ==
    /\ ((StepFrom(p, "ta_ret") \/ StepFrom(p, "tr_ret")) /\ proc[p].ret < 0) =>
          /\ proc'[p].pc = "exit" /\ proc'[p].ret = -1
          /\ proc'[p].acq = proc[p].acq /\ proc'[p].rel = proc[p].rel
          /\ ptable' = ptable
    /\ ~StepFrom(p, "exit")

\* C16: no rollback on traversal failure.  When a peterson_acquire of
\* tournament_acquire returns -1, tournament_acquire returns -1 at that
\* level and the process makes no further call; the failing lock is
\* inactive, and the flags the process set at the levels it had passed are
\* still set on every such lock that has not been destroyed.  When a
\* peterson_release of tournament_release returns -1, tournament_release
\* returns -1 with the levels below the failing one unreleased: their flags
\* are still set.
C16_NoRollback ==
    /\ [](\A p \in TourProcs :
            LET L   == proc[p].L_levels
                acq == proc[p].acq
                rel == proc[p].rel
            IN /\ AcquireFailed(p) =>
                    /\ acq # <<>> /\ Len(acq) = L - proc[p].l
                    /\ rel = <<>>
                    /\ ptable[LockAt(proc[p], acq[Len(acq)][1])].active = 0
                    /\ \A j \in 1 .. (Len(acq) - 1) : StaysSet(p, acq[j])
               /\ ReleaseFailed(p) =>
                    /\ Len(acq) = L
                    /\ rel # <<>> /\ Len(rel) = proc[p].l + 1
                    /\ \A j \in 1 .. Len(rel) : rel[j] = acq[L + 1 - j]
                    /\ ptable[LockAt(proc[p], rel[Len(rel)][1])].active = 0
                    /\ \A j \in 1 .. (L - Len(rel)) : StaysSet(p, acq[j]))
    /\ [][\A p \in TourProcs : FailedStepOk(p)]_vars

\* of four participants, the root was destroyed while participant 0 was in
\* its critical section and participant 3 waited at the root: the
\* tournament_acquire of 3 and the tournament_release of 0 have failed at
\* level 0, and both have left their flag set at the leaf level
C16_Witness ==
    /\ proc[0].N_processes = 4
    /\ AcquireFailed(3) /\ proc[3].acq = << <<2, 1>>, <<0, 1>> >>
    /\ ReleaseFailed(0) /\ proc[0].rel = << <<0, 0>> >>
    /\ ptable[0].active = 0
    /\ ptable[2].flag[1] = 1 /\ ptable[1].flag[0] = 1

\* C21: no guard is held across a suspension or a return.  A context that
\* has yielded in the wait loop of peterson_acquire, and a context to which
\* peterson_create, peterson_acquire, peterson_release or peterson_destroy
\* has returned, on whatever path, holds neither a slot's spinlock nor
\* ptable_lock.
C21_NoGuardHeld ==
    \A p \in Callers :
        proc[p].pc \in {"user", "acquire_yield"}
            => HeldSlots(p) = {} /\ ptable_lock # p

\* one caller has yielded in the wait loop while the other, which holds the
\* lock, has had a peterson_destroy with a handle out of range rejected
C21_Witness ==
    \E p, q \in Callers :
        /\ proc[p].pc = "acquire_yield"
        /\ proc[q].pc = "user" /\ proc[q].ret = -1
        /\ obs.call[q] = [op |-> "destroy", h |-> NPETERSONLOCKS, r |-> 0]

\* the elements of the sequence sq
Range(sq) == {sq[j] : j \in 1 .. Len(sq)}

\* the peterson_release calls of p's current tournament_release that have
\* returned
ReleasesDone(p) ==
    IF proc[p].pc \in {"release_lk", "release_clear"}
    THEN Range(SubSeq(proc[p].rel, 1, Len(proc[p].rel) - 1))
    ELSE Range(proc[p].rel)

\* the (array index, role) pairs p contends for or holds: from its call of
\* peterson_acquire on the node to the return of its peterson_release on it
Occupied(p) == Range(proc[p].acq) \ ReleasesDone(p)

\* C22: per-node role exclusivity.  With participants that call
\* tournament_acquire and then tournament_release and no peterson_destroy,
\* no two participants contend for or hold the same node's lock with the
\* same role at the same time.
C22_RoleExclusive ==
    \A p, q \in TourProcs :
        p # q => Occupied(p) \cap Occupied(q) = {}

\* of four participants, 0 is in its critical section, 1 waits at the leaf
\* lock it shares with 0, and 2 waits at the root
C22_Witness ==
    /\ proc[0].N_processes = 4 /\ proc[0].pc = "tm_cs"
    /\ proc[1].pc = "acquire_yield" /\ proc[1].l = 1
    /\ proc[2].pc = "acquire_yield" /\ proc[2].l = 0
    /\ Occupied(0) = {<<1, 0>>, <<0, 0>>}
====
